---- MODULE Spec2Model ----
(***************************************************************************)
(* Model of the service desk application (src/app.py): the schema          *)
(* reconciler run at start-up (db.create_all + ensure_schema) and the      *)
(* mutating request handlers with their audit trail (add_event).           *)
(*                                                                         *)
(* Text values are sequences of atoms: "" is << >>, "med" is <<"med">>,    *)
(* " a " is <<" ", "a", " ">>.  The atom " " is whitespace.  SQL NULL and  *)
(* Python None are the value NULL.                                         *)
(***************************************************************************)
EXTENDS Integers, Sequences, FiniteSets, TLC

VARIABLES schema, tickets, comments, attachments, events, now, pc, runs, err, last, req, stops

vars == <<schema, tickets, comments, attachments, events, now, pc, runs, err, last, req, stops>>

(* ---------------------------------------------------------------- bounds *)
MaxRuns == 2
MaxTickets == 2
MaxEvents == 3
MaxChildren == 1
MaxStops == 1

(* ----------------------------------------------------------- text values *)
NULL == <<"<null>">>
WS == " "
Empty == << >>
S(w) == <<w>>

(* Date columns hold clock readings 1, 2, ...; a NULL date is NullTime. *)
NullTime == 0

Truthy(v) == v # NULL /\ v # Empty

Or(v, d) == IF Truthy(v) THEN v ELSE d

RECURSIVE LStrip(_)
LStrip(s) == IF s # Empty /\ Head(s) = WS THEN LStrip(Tail(s)) ELSE s

RECURSIVE RStrip(_)
RStrip(s) == IF s # Empty /\ s[Len(s)] = WS THEN RStrip(SubSeq(s, 1, Len(s) - 1)) ELSE s

Strip(s) == RStrip(LStrip(s))

Range(s) == {s[i] : i \in 1..Len(s)}

(* ------------------------------------------------------------- the model *)
STATUS_CHOICES == {S("open"), S("prog"), S("hold"), S("done")}
PRIORITY_CHOICES == {S("low"), S("med"), S("high"), S("crit")}

TableNames == {"tickets", "comments", "attachments", "events"}

(* The columns of the four models, in declaration order.  The keyword     *)
(* indes=True of Comment.ticket_id and Attachment.ticket_id is read as     *)
(* index=True.                                                            *)
ModelCols ==
  [tickets |-> <<"id", "title", "content", "requester", "assignee", "priority", "status", "created_at", "updated_at">>,
   comments |-> <<"id", "ticket_id", "author", "body", "created_at">>,
   attachments |-> <<"id", "ticket_id", "filename", "stored_path", "size", "mimetype", "created_at">>,
   events |-> <<"id", "ticket_id", "actor", "action", "from_value", "to_value", "created_at">>]

(* The columns of ensure_schema's CREATE TABLE statements. *)
DdlCols ==
  [tickets |-> <<"id", "title", "content", "requester", "assignee", "priority", "status", "created_at", "updated_at">>,
   comments |-> <<"id", "ticket_id", "author", "body", "created_at">>,
   attachments |-> <<"id", "ticket_id", "filename", "stored_path", "size", "created_at">>,
   events |-> <<"id", "ticket_id", "actor", "action", "from_value", "to_value", "created_at">>]

(* need_cols with the status column declared without its default. *)
need_cols_no_default ==
  <<[name |-> "content", dflt |-> NULL],
    [name |-> "assignee", dflt |-> NULL],
    [name |-> "priority", dflt |-> S("med")],
    [name |-> "status", dflt |-> NULL],
    [name |-> "created_at", dflt |-> NullTime],
    [name |-> "updated_at", dflt |-> NullTime]>>

need_cols ==
  <<[name |-> "content", dflt |-> NULL],
    [name |-> "assignee", dflt |-> NULL],
    [name |-> "priority", dflt |-> S("med")],
    [name |-> "status", dflt |-> S("open")],
    [name |-> "created_at", dflt |-> NullTime],
    [name |-> "updated_at", dflt |-> NullTime]>>

(* A table that does not exist has no columns. *)
Exists(sch, t) == sch[t] # << >>

CreateIfNotExists(sch, t, cols) == IF Exists(sch, t) THEN sch ELSE [sch EXCEPT ![t] = cols]

(* db.create_all(): creates every table of the model that is missing. *)
create_all(sch) ==
  [t \in TableNames |-> IF Exists(sch, t) THEN sch[t] ELSE ModelCols[t]]

(* ALTER TABLE tickets ADD COLUMN: rejected by the engine when the column  *)
(* exists; otherwise the column is appended and every row reads its        *)
(* default.                                                                *)
AddColumn(st, col) ==
  IF col.name \in Range(st.schema["tickets"])
    THEN [st EXCEPT !.err = TRUE]
    ELSE [st EXCEPT !.schema["tickets"] = Append(@, col.name),
                    !.tickets = [i \in 1..Len(@) |-> (col.name :> col.dflt) @@ @[i]]]

(* AddMissing without the test for the column being there already. *)
RECURSIVE AddMissingUnchecked(_, _, _)
AddMissingUnchecked(st, existing_cols, i) ==
  IF i > Len(need_cols) \/ st.err THEN st
  ELSE AddMissingUnchecked(AddColumn(st, need_cols[i]), existing_cols, i + 1)

RECURSIVE AddMissing(_, _, _)
AddMissing(st, existing_cols, i) ==
  IF i > Len(need_cols) \/ st.err THEN st
  ELSE IF need_cols[i].name \notin existing_cols
    THEN AddMissing(AddColumn(st, need_cols[i]), existing_cols, i + 1)
    ELSE AddMissing(st, existing_cols, i + 1)

(* ensure_schema() on the store st = [schema, tickets, err]. *)
ensure_schema(st) ==
  LET s1 == [st EXCEPT !.schema = CreateIfNotExists(@, "tickets", DdlCols["tickets"])]
      existing_cols == Range(s1.schema["tickets"])
      s2 == AddMissing(s1, existing_cols, 1)
  IN IF s2.err THEN s2
     ELSE [s2 EXCEPT !.schema =
             CreateIfNotExists(
               CreateIfNotExists(
                 CreateIfNotExists(@, "comments", DdlCols["comments"]),
                 "attachments", DdlCols["attachments"]),
               "events", DdlCols["events"])]

(* ------------------------------------------------- session and recorder *)
(* A request works on ses = [db, tid, dirty, changed]: db is the store,    *)
(* dirty the attributes of ticket tid assigned but not yet flushed.        *)
NoDirty == << >>

Session(db, tid) == [db |-> db, tid |-> tid, dirty |-> NoDirty, changed |-> FALSE]

(* The ticket object as the handler reads it. *)
View(ses) == ses.dirty @@ ses.db.tickets[ses.tid]

(* Flushing a modified ticket issues an UPDATE, which sets updated_at      *)
(* (onupdate=datetime.now).                                                *)
Flush(ses) ==
  IF DOMAIN ses.dirty = {} THEN ses.db
  ELSE [ses.db EXCEPT !.tickets[ses.tid] = ("updated_at" :> ses.db.now) @@ ses.dirty @@ @]

(* db.session.commit(): everything pending in the session is written. *)
Commit(ses) == [ses EXCEPT !.db = [Flush(ses) EXCEPT !.now = @ + 1], !.dirty = NoDirty]

(* add_event keeping only the latest Event of the ticket. *)
add_event_latest_only(ses, ticket_id, actor, action, from_value, to_value) ==
  Commit([ses EXCEPT !.db.events =
            Append(SelectSeq(@, LAMBDA e : e.ticket_id # ticket_id),
                   [id |-> Len(@) + 1, ticket_id |-> ticket_id, actor |-> actor,
                    action |-> action, from_value |-> from_value,
                    to_value |-> to_value, created_at |-> ses.db.now])])

add_event(ses, ticket_id, actor, action, from_value, to_value) ==
  Commit([ses EXCEPT !.db.events =
            Append(@, [id |-> Len(@) + 1, ticket_id |-> ticket_id, actor |-> actor,
                       action |-> action, from_value |-> from_value,
                       to_value |-> to_value, created_at |-> ses.db.now])])

(* ---------------------------------------------------------- new_ticket *)
NewTicketForm(a) ==
  [title |-> Strip(a.title), content |-> Strip(a.content), requester |-> Strip(a.requester),
   priority |-> Or(Strip(IF a.priority = NULL THEN S("med") ELSE a.priority), S("med"))]

(* NewTicketValid without the test of the requester. *)
NewTicketValidTitleOnly(f) == Truthy(f.title)

NewTicketValid(f) == Truthy(f.title) /\ Truthy(f.requester)

NewTicketInsert(db, f) ==
  LET t == [id |-> Len(db.tickets) + 1, title |-> f.title, content |-> f.content,
            requester |-> f.requester, assignee |-> NULL, priority |-> f.priority,
            status |-> S("open"), created_at |-> db.now, updated_at |-> db.now]
  IN Commit(Session([db EXCEPT !.tickets = Append(@, t)], t.id))

NewTicketEvent(ses, f) ==
  add_event(ses, ses.tid, Or(f.requester, S("user")), "created", NULL, NULL)

new_ticket(db, a) ==
  LET f == NewTicketForm(a)
  IN IF ~NewTicketValid(f) THEN [db |-> db, out |-> "400"]
     ELSE [db |-> NewTicketEvent(NewTicketInsert(db, f), f).db, out |-> "ok"]

(* ------------------------------------------------------- ticket_detail *)
(* StatusStep without the comparison with the current status. *)
StatusStepNoCompare(ses, a) ==
  LET t == View(ses)
  IN IF Truthy(a.status)
       THEN [add_event(ses, t.id, a.actor, "status", t.status, a.status)
               EXCEPT !.dirty = "status" :> a.status, !.changed = TRUE]
       ELSE ses

StatusStep(ses, a) ==
  LET t == View(ses)
  IN IF Truthy(a.status) /\ a.status # t.status
       THEN [add_event(ses, t.id, a.actor, "status", t.status, a.status)
               EXCEPT !.dirty = "status" :> a.status, !.changed = TRUE]
       ELSE ses

AssigneeStep(ses, a) ==
  LET t == View(ses)
  IN IF a.assignee # NULL /\ a.assignee # Or(t.assignee, Empty)
       THEN [add_event(ses, t.id, a.actor, "assignee", Or(t.assignee, Empty), a.assignee)
               EXCEPT !.dirty = "assignee" :> a.assignee, !.changed = TRUE]
       ELSE ses

PriorityStep(ses, a) ==
  LET t == View(ses)
  IN IF Truthy(a.priority) /\ a.priority # t.priority
       THEN [add_event(ses, t.id, a.actor, "priority", t.priority, a.priority)
               EXCEPT !.dirty = "priority" :> a.priority, !.changed = TRUE]
       ELSE ses

FinalStep(ses) == IF ses.changed THEN Commit(ses) ELSE ses

TicketExists(db, tid) == tid \in 1..Len(db.tickets)

ticket_detail(db, tid, a) ==
  IF ~TicketExists(db, tid) THEN [db |-> db, out |-> "404"]
  ELSE [db |-> FinalStep(PriorityStep(AssigneeStep(StatusStep(Session(db, tid), a), a), a)).db,
        out |-> "ok"]

(* --------------------------------------------------------- add_comment *)
CommentForm(a) == [author |-> Or(Strip(a.author), S("user")), body |-> Strip(a.body)]

CommentInsert(db, tid, f) ==
  Commit(Session([db EXCEPT !.comments =
                    Append(@, [id |-> Len(@) + 1, ticket_id |-> tid, author |-> f.author,
                               body |-> f.body, created_at |-> db.now])], tid))

add_comment(db, tid, a) ==
  LET f == CommentForm(a)
  IN IF ~TicketExists(db, tid) THEN [db |-> db, out |-> "404"]
     ELSE IF ~Truthy(f.body) THEN [db |-> db, out |-> "flash"]
     ELSE [db |-> add_event(CommentInsert(db, tid, f), tid, f.author, "comment", NULL, NULL).db,
           out |-> "ok"]

(* ------------------------------------------------------- upload_attach *)
(* secure_filename keeps the safe atoms of the name. *)
secure_filename(name) == SelectSeq(name, LAMBDA c : c \notin {WS, "/", ".."})

(* The INSERT names every column of the Attachment model. *)
AttachInsertable(db) == Range(ModelCols["attachments"]) \subseteq Range(db.schema["attachments"])

AttachInsert(db, tid, safe_name, size) ==
  Commit(Session([db EXCEPT !.attachments =
                    Append(@, [id |-> Len(@) + 1, ticket_id |-> tid, filename |-> safe_name,
                               stored_path |-> <<tid, Len(@) + 1>>, size |-> size,
                               mimetype |-> NULL, created_at |-> db.now])], tid))

upload_attach(db, tid, a) ==
  LET author == Or(Strip(a.author), S("user"))
      safe_name == secure_filename(a.file.filename)
  IN IF ~TicketExists(db, tid) THEN [db |-> db, out |-> "404"]
     ELSE IF ~a.file.present \/ a.file.filename = Empty THEN [db |-> db, out |-> "flash"]
     ELSE IF ~AttachInsertable(db) THEN [db |-> db, out |-> "500"]
     ELSE [db |-> add_event(AttachInsert(db, tid, safe_name, a.file.size), tid, author,
                            "attach", NULL, safe_name).db,
           out |-> "ok"]

(* ------------------------------------------------------- starting stores *)
OptionalTicketCols == <<"content", "assignee", "priority", "status", "created_at", "updated_at">>

LegacyTicketCols(keep) ==
  <<"id", "title", "requester">> \o SelectSeq(OptionalTicketCols, LAMBDA c : c \in keep)

LegacyValue ==
  [id |-> 1, title |-> S("old"), content |-> S("c"), requester |-> S("r0"),
   assignee |-> S("bob"), priority |-> S("high"), status |-> S("hold"),
   created_at |-> 1, updated_at |-> 1]

LegacyRow(cols) == [c \in Range(cols) |-> LegacyValue[c]]

(* The stores the process can be started on: no file, an empty file, the  *)
(* tables of an older version (tickets with fewer columns, attachments as  *)
(* ensure_schema itself creates them), or the current tables.             *)
TicketTables == {<< >>} \cup {LegacyTicketCols(keep) : keep \in SUBSET Range(OptionalTicketCols)}

StartSchemas ==
  {[tickets |-> tk, comments |-> cm, attachments |-> at, events |-> ev] :
     tk \in TicketTables,
     cm \in {<< >>, ModelCols["comments"]},
     at \in {<< >>, DdlCols["attachments"], ModelCols["attachments"]},
     ev \in {<< >>, ModelCols["events"]}}

StartRows(sch) ==
  IF Exists(sch, "tickets") THEN {<< >>, <<LegacyRow(sch["tickets"])>>} ELSE {<< >>}

ServingSchemas ==
  {sch \in StartSchemas :
     \/ \A t \in TableNames : ~Exists(sch, t)
     \/ /\ sch["tickets"] = <<"id", "title", "requester">>
        /\ sch["attachments"] = DdlCols["attachments"]
        /\ ~Exists(sch, "comments") /\ ~Exists(sch, "events")}

Snapshot ==
  [schema |-> schema, tickets |-> tickets, comments |-> comments,
   attachments |-> attachments, events |-> events, now |-> now]

NoOp == [op |-> "none"]
Idle == [op |-> "idle"]

InitWith(schemas) ==
  /\ schema \in schemas
  /\ tickets \in StartRows(schema)
  /\ comments = << >>
  /\ attachments = << >>
  /\ events = << >>
  /\ now = 2
  /\ pc = "boot"
  /\ runs = 0
  /\ err = FALSE
  /\ last = NoOp
  /\ req = Idle
  /\ stops = 0

Init == InitWith(ServingSchemas) /\ (Exists(schema, "tickets") => tickets # << >>)

InitSchema == InitWith(StartSchemas)

(* ------------------------------------------------------ start-up block *)
CreateAll ==
  /\ pc = "boot"
  /\ schema' = create_all(schema)
  /\ pc' = "ensure"
  /\ last' = [op |-> "create_all", pre |-> Snapshot]
  /\ UNCHANGED <<tickets, comments, attachments, events, now, runs, err, req, stops>>

EnsureSchema ==
  /\ pc = "ensure"
  /\ LET r == ensure_schema([schema |-> schema, tickets |-> tickets, err |-> FALSE])
     IN /\ schema' = r.schema
        /\ tickets' = r.tickets
        /\ err' = r.err
        /\ pc' = IF r.err THEN "failed" ELSE "serving"
  /\ runs' = runs + 1
  /\ last' = [op |-> "ensure_schema", pre |-> Snapshot]
  /\ UNCHANGED <<comments, attachments, events, now, req, stops>>

(* The process is stopped and started again on the same store. *)
Restart ==
  /\ pc = "serving"
  /\ runs < MaxRuns
  /\ pc' = "boot"
  /\ req' = Idle
  /\ last' = NoOp
  /\ UNCHANGED <<schema, tickets, comments, attachments, events, now, runs, err, stops>>

NextSchema == CreateAll \/ EnsureSchema \/ Restart

SpecSchema == InitSchema /\ [][NextSchema]_vars

(* ------------------------------------------------------------ requests *)
NewTicketInputs ==
  [title : {<<WS, "t", WS>>}, content : {S("c")}, requester : {S("alice")},
   priority : {NULL, <<WS>>, <<WS, "high">>, S("urgent")}]
  \cup
  {[title |-> Empty, content |-> S("c"), requester |-> S("alice"), priority |-> NULL],
   [title |-> S("t"), content |-> S("c"), requester |-> Empty, priority |-> NULL],
   [title |-> <<WS>>, content |-> S("c"), requester |-> S("alice"), priority |-> NULL]}

UpdateInputs ==
  [actor : {S("bob")},
   status : {NULL, Empty, S("prog"), S("wip")},
   assignee : {NULL, Empty, S("alice")},
   priority : {NULL, S("crit")}]

CommentInputs == [author : {Empty}, body : {<<WS>>, <<WS, "hi">>}]

NoFile == [present |-> FALSE, filename |-> Empty, size |-> 0]

AttachInputs ==
  [author : {S("bob")},
   file : {NoFile,
           [present |-> TRUE, filename |-> Empty, size |-> 0],
           [present |-> TRUE, filename |-> <<"..", "/", "report.pdf">>, size |-> 1]}]

(* The tickets there are, and one id that names none. *)
TicketIds == 1..(Len(tickets) + 1)

WithinBounds(db) ==
  /\ Len(db.tickets) <= MaxTickets
  /\ Len(db.events) <= MaxEvents
  /\ Len(db.comments) <= MaxChildren
  /\ Len(db.attachments) <= MaxChildren

Store(db) ==
  /\ tickets' = db.tickets
  /\ comments' = db.comments
  /\ attachments' = db.attachments
  /\ events' = db.events
  /\ now' = db.now

Serving == pc = "serving" /\ req = Idle

NewTicket ==
  /\ Serving
  /\ \E a \in NewTicketInputs :
       LET r == new_ticket(Snapshot, a)
       IN /\ WithinBounds(r.db)
          /\ Store(r.db)
          /\ last' = [op |-> "new_ticket", in |-> a, pre |-> Snapshot, out |-> r.out]
  /\ UNCHANGED <<schema, pc, runs, err, req, stops>>

TicketDetail ==
  /\ Serving
  /\ \E tid \in TicketIds, a \in UpdateInputs :
       LET r == ticket_detail(Snapshot, tid, a)
       IN /\ WithinBounds(r.db)
          /\ Store(r.db)
          /\ last' = [op |-> "ticket_detail", tid |-> tid, in |-> a, pre |-> Snapshot, out |-> r.out]
  /\ UNCHANGED <<schema, pc, runs, err, req, stops>>

AddComment ==
  /\ Serving
  /\ \E tid \in TicketIds, a \in CommentInputs :
       LET r == add_comment(Snapshot, tid, a)
       IN /\ WithinBounds(r.db)
          /\ Store(r.db)
          /\ last' = [op |-> "add_comment", tid |-> tid, in |-> a, pre |-> Snapshot, out |-> r.out]
  /\ UNCHANGED <<schema, pc, runs, err, req, stops>>

UploadAttach ==
  /\ Serving
  /\ \E tid \in TicketIds, a \in AttachInputs :
       LET r == upload_attach(Snapshot, tid, a)
       IN /\ WithinBounds(r.db)
          /\ Store(r.db)
          /\ last' = [op |-> "upload_attach", tid |-> tid, in |-> a, pre |-> Snapshot, out |-> r.out]
  /\ UNCHANGED <<schema, pc, runs, err, req, stops>>

Next == CreateAll \/ EnsureSchema \/ Restart \/ NewTicket \/ TicketDetail \/ AddComment \/ UploadAttach

Spec == Init /\ [][Next]_vars

(* ------------------------------------- requests, one commit at a time *)
(* A request in flight keeps its session in req; the store is what its    *)
(* commits have written so far.  The process can stop between commits.    *)
InitCommits == InitWith(ServingSchemas) /\ tickets = << >>

SesOf(r) == [db |-> Snapshot, tid |-> r.tid, dirty |-> r.dirty, changed |-> r.changed]

Keep(r, ses) == [r EXCEPT !.dirty = ses.dirty, !.changed = ses.changed]

NewTicketBegin ==
  /\ Serving
  /\ \E a \in NewTicketInputs :
       LET f == NewTicketForm(a)
           ses == NewTicketInsert(Snapshot, f)
       IN /\ NewTicketValid(f)
          /\ WithinBounds(ses.db)
          /\ Len(events) < MaxEvents
          /\ Store(ses.db)
          /\ req' = [op |-> "new_ticket", tid |-> ses.tid, f |-> f, dirty |-> NoDirty,
                     changed |-> FALSE]
  /\ UNCHANGED <<schema, pc, runs, err, last, stops>>

NewTicketFinish ==
  /\ pc = "serving"
  /\ req.op = "new_ticket"
  /\ Store(NewTicketEvent(SesOf(req), req.f).db)
  /\ req' = Idle
  /\ UNCHANGED <<schema, pc, runs, err, last, stops>>

(* ticket_detail from the given step up to and including its next commit. *)
RECURSIVE RunToCommit(_, _, _)
RunToCommit(ses, step, a) ==
  LET after == CASE step = "status" -> StatusStep(ses, a)
                 [] step = "assignee" -> AssigneeStep(ses, a)
                 [] step = "priority" -> PriorityStep(ses, a)
                 [] OTHER -> FinalStep(ses)
      next == CASE step = "status" -> "assignee"
                [] step = "assignee" -> "priority"
                [] step = "priority" -> "final"
                [] OTHER -> "done"
  IN IF next = "done" \/ after.db # ses.db THEN [ses |-> after, step |-> next]
     ELSE RunToCommit(after, next, a)

TicketDetailBegin ==
  /\ Serving
  /\ \E tid \in TicketIds, a \in UpdateInputs :
       /\ TicketExists(Snapshot, tid)
       /\ WithinBounds(ticket_detail(Snapshot, tid, a).db)
       /\ LET r == RunToCommit(Session(Snapshot, tid), "status", a)
          IN /\ Store(r.ses.db)
             /\ req' = IF r.step = "done" THEN Idle
                       ELSE [op |-> "ticket_detail", step |-> r.step, tid |-> tid, a |-> a,
                             dirty |-> r.ses.dirty, changed |-> r.ses.changed]
  /\ UNCHANGED <<schema, pc, runs, err, last, stops>>

TicketDetailCommit ==
  /\ pc = "serving"
  /\ req.op = "ticket_detail"
  /\ LET r == RunToCommit(SesOf(req), req.step, req.a)
     IN /\ Store(r.ses.db)
        /\ req' = IF r.step = "done" THEN Idle ELSE [Keep(req, r.ses) EXCEPT !.step = r.step]
  /\ UNCHANGED <<schema, pc, runs, err, last, stops>>

AddCommentBegin ==
  /\ Serving
  /\ \E tid \in TicketIds, a \in CommentInputs :
       LET f == CommentForm(a)
           ses == CommentInsert(Snapshot, tid, f)
       IN /\ TicketExists(Snapshot, tid)
          /\ Truthy(f.body)
          /\ WithinBounds(ses.db)
          /\ Len(events) < MaxEvents
          /\ Store(ses.db)
          /\ req' = [op |-> "add_comment", tid |-> tid, f |-> f, dirty |-> NoDirty,
                     changed |-> FALSE]
  /\ UNCHANGED <<schema, pc, runs, err, last, stops>>

AddCommentFinish ==
  /\ pc = "serving"
  /\ req.op = "add_comment"
  /\ Store(add_event(SesOf(req), req.tid, req.f.author, "comment", NULL, NULL).db)
  /\ req' = Idle
  /\ UNCHANGED <<schema, pc, runs, err, last, stops>>

UploadAttachBegin ==
  /\ Serving
  /\ \E tid \in TicketIds, a \in AttachInputs :
       LET safe_name == secure_filename(a.file.filename)
           ses == AttachInsert(Snapshot, tid, safe_name, a.file.size)
       IN /\ TicketExists(Snapshot, tid)
          /\ a.file.present /\ a.file.filename # Empty
          /\ AttachInsertable(Snapshot)
          /\ WithinBounds(ses.db)
          /\ Len(events) < MaxEvents
          /\ Store(ses.db)
          /\ req' = [op |-> "upload_attach", tid |-> tid,
                     f |-> [author |-> Or(Strip(a.author), S("user")), safe_name |-> safe_name],
                     dirty |-> NoDirty, changed |-> FALSE]
  /\ UNCHANGED <<schema, pc, runs, err, last, stops>>

UploadAttachFinish ==
  /\ pc = "serving"
  /\ req.op = "upload_attach"
  /\ Store(add_event(SesOf(req), req.tid, req.f.author, "attach", NULL, req.f.safe_name).db)
  /\ req' = Idle
  /\ UNCHANGED <<schema, pc, runs, err, last, stops>>

(* The request ends between two commits: what it committed stays, what    *)
(* its session still held is lost.                                        *)
Stop ==
  /\ req # Idle
  /\ stops < MaxStops
  /\ req' = Idle
  /\ stops' = stops + 1
  /\ UNCHANGED <<schema, tickets, comments, attachments, events, now, pc, runs, err, last>>

NextCommits ==
  \/ CreateAll \/ EnsureSchema
  \/ NewTicketBegin \/ NewTicketFinish
  \/ TicketDetailBegin \/ TicketDetailCommit
  \/ AddCommentBegin \/ AddCommentFinish
  \/ UploadAttachBegin \/ UploadAttachFinish
  \/ Stop

SpecCommits == InitCommits /\ [][NextCommits]_vars

(* ================================================================ claims *)
IsPrefix(s, t) == Len(s) <= Len(t) /\ SubSeq(t, 1, Len(s)) = s

NoDuplicateColumns ==
  \A t \in TableNames : \A i, j \in 1..Len(schema[t]) : schema[t][i] = schema[t][j] => i = j

(* C1: ensure_schema is idempotent.  No run of it raises an error or      *)
(* leaves a column twice in a table, and a run that follows an earlier    *)
(* run changes neither the tables and their columns nor the rows.         *)
C1_Idempotent ==
  /\ runs >= 1 => ~err /\ pc # "failed" /\ NoDuplicateColumns
  /\ (last.op = "ensure_schema" /\ runs >= 2) =>
       schema = last.pre.schema /\ tickets = last.pre.tickets

(* The second run is over, on a store whose first run had to add columns  *)
(* to a legacy tickets table that holds a row.                            *)
C1_Witness ==
  /\ last.op = "ensure_schema" /\ runs = 2
  /\ schema["tickets"] # ModelCols["tickets"]
  /\ Len(schema["tickets"]) = Len(ModelCols["tickets"])
  /\ tickets # << >>

(* C5: once the reconciler has completed at start-up, every table holds   *)
(* every column of the entity model.                                      *)
C5_Superset ==
  pc = "serving" => \A t \in TableNames : Range(ModelCols[t]) \subseteq Range(schema[t])

(* C6: reconciling a legacy tickets table is additive: its columns stay   *)
(* in place, every row is still there with the same values in the columns *)
(* it had, and an added column reads 'med' (priority), 'open' (status) or *)
(* null (content, assignee, created_at, updated_at).                      *)
ClaimedDefault ==
  [content |-> NULL, assignee |-> NULL, priority |-> S("med"), status |-> S("open"),
   created_at |-> NullTime, updated_at |-> NullTime]

C6_Backfill ==
  last.op = "ensure_schema" =>
    /\ \A t \in TableNames : IsPrefix(last.pre.schema[t], schema[t])
    /\ Len(tickets) = Len(last.pre.tickets)
    /\ \A i \in 1..Len(tickets) :
         /\ DOMAIN last.pre.tickets[i] \subseteq DOMAIN tickets[i]
         /\ DOMAIN tickets[i] = Range(schema["tickets"])
         /\ \A c \in DOMAIN tickets[i] :
              tickets[i][c] = IF c \in DOMAIN last.pre.tickets[i]
                                THEN last.pre.tickets[i][c]
                                ELSE ClaimedDefault[c]

(* A table with only id, title and requester and one row was reconciled. *)
C6_Witness ==
  /\ last.op = "ensure_schema"
  /\ last.pre.schema["tickets"] = <<"id", "title", "requester">>
  /\ Len(last.pre.tickets) = 1
  /\ Len(schema["tickets"]) = 9
  /\ tickets[1].title = S("old") /\ tickets[1].status = S("open")

(* ---- updateTicket *)
NewEvents == SubSeq(events, Len(last.pre.events) + 1, Len(events))

OldTicket == last.pre.tickets[last.tid]

Unassigned(v) == v = NULL \/ v = Empty

SameAssignee(v, w) == (Unassigned(v) /\ Unassigned(w)) \/ v = w

(* The request asks for a value of the field that differs from the        *)
(* ticket's: a field left out or left blank asks for nothing, and for the *)
(* assignee unset and "" are the same value.                              *)
Differs(field) ==
  CASE field = "assignee" ->
         last.in.assignee # NULL /\ ~SameAssignee(last.in.assignee, OldTicket.assignee)
    [] OTHER ->
         ~(last.in[field] = NULL \/ last.in[field] = Empty) /\ last.in[field] # OldTicket[field]

EventsFor(field) == SelectSeq(NewEvents, LAMBDA e : e.action = field)

(* C2: updateTicket appends exactly one Event for each of status,         *)
(* assignee, priority whose requested value differs from the current one, *)
(* carrying the old and the requested value, and none for the others.     *)
C2_ChangeDetection ==
  (last.op = "ticket_detail" /\ last.out = "ok") =>
    /\ IsPrefix(last.pre.events, events)
    /\ \A i \in 1..Len(NewEvents) :
         NewEvents[i].action \in {"status", "assignee", "priority"} /\ NewEvents[i].ticket_id = last.tid
    /\ \A field \in {"status", "assignee", "priority"} :
         IF Differs(field)
           THEN /\ Len(EventsFor(field)) = 1
                /\ EventsFor(field)[1].to_value = last.in[field]
                /\ IF field = "assignee"
                     THEN SameAssignee(EventsFor(field)[1].from_value, OldTicket.assignee)
                     ELSE EventsFor(field)[1].from_value = OldTicket[field]
           ELSE EventsFor(field) = << >>

(* An update that changes the status and the assignee of the second       *)
(* ticket: two events.                                                    *)
C2_Witness ==
  /\ last.op = "ticket_detail" /\ last.out = "ok" /\ last.tid = 2
  /\ Differs("status") /\ Differs("assignee") /\ ~Differs("priority")
  /\ Len(NewEvents) = 2

(* ---- history replay *)
EventsOf(tid) == SelectSeq(events, LAMBDA e : e.ticket_id = tid)

RECURSIVE Replay(_, _)
Replay(evs, acc) ==
  IF evs = << >> THEN acc
  ELSE LET e == Head(evs)
       IN Replay(Tail(evs),
                 IF e.action \in {"status", "assignee", "priority"}
                   THEN [acc EXCEPT ![e.action] = e.to_value] ELSE acc)

(* What a ticket is when its created Event is written: open, unassigned,  *)
(* priority med; the Event itself carries no value.                       *)
AtCreation == [status |-> S("open"), assignee |-> NULL, priority |-> S("med")]

HasCreated(tid) == \E i \in 1..Len(events) : events[i].ticket_id = tid /\ events[i].action = "created"

(* C3: replaying a ticket's Events from its created Event forward yields  *)
(* the status, assignee and priority its row holds (stated here for the   *)
(* tickets that hold enumerated values).                                  *)
C3_Replay ==
  \A tid \in 1..Len(tickets) :
    (/\ HasCreated(tid)
     /\ tickets[tid].status \in STATUS_CHOICES
     /\ tickets[tid].priority \in PRIORITY_CHOICES) =>
      LET r == Replay(EventsOf(tid), AtCreation)
      IN /\ r.status = tickets[tid].status
         /\ SameAssignee(r.assignee, tickets[tid].assignee)
         /\ r.priority = tickets[tid].priority

(* ---- unit of work *)
Count(seq, tid) == Len(SelectSeq(seq, LAMBDA x : x.ticket_id = tid))

CountAction(tid, action) ==
  Len(SelectSeq(events, LAMBDA e : e.ticket_id = tid /\ e.action = action))

LastTo(tid, field) ==
  LET evs == SelectSeq(events, LAMBDA e : e.ticket_id = tid /\ e.action = field)
  IN evs[Len(evs)].to_value

(* C4: no committed store holds a Ticket, Comment or Attachment without   *)
(* its Event, or a status/assignee/priority Event without its change of   *)
(* the row.                                                               *)
C4_OneUnitOfWork ==
  \A tid \in 1..Len(tickets) :
    /\ CountAction(tid, "created") = 1
    /\ CountAction(tid, "comment") = Count(comments, tid)
    /\ CountAction(tid, "attach") = Count(attachments, tid)
    /\ \A field \in {"status", "assignee", "priority"} :
         CountAction(tid, field) > 0 => LastTo(tid, field) = tickets[tid][field]

(* C7: the Event log is append-only: every step leaves the Events written *)
(* so far in place and unchanged.                                         *)
C7_AppendOnly == [][IsPrefix(events, events')]_vars

(* The reconciler has run again on a store that holds Events, and a       *)
(* request has since added one.                                           *)
C7_Witness ==
  /\ runs = 2 /\ pc = "serving"
  /\ last.op \in {"ticket_detail", "add_comment", "upload_attach"}
  /\ Len(last.pre.events) >= 2 /\ Len(events) > Len(last.pre.events)

(* C8: createTicket with an empty title or requester is refused and       *)
(* leaves tickets and events as they are; a successful one adds exactly   *)
(* one Ticket, open, with the requested priority (med when none is        *)
(* given), and exactly one created Event for it.                          *)
RequestedPriority(a) ==
  IF a.priority = NULL \/ Strip(a.priority) = Empty THEN S("med") ELSE Strip(a.priority)

C8_CreateTicket ==
  last.op = "new_ticket" =>
    /\ (last.in.title = Empty \/ last.in.requester = Empty) => last.out = "400"
    /\ last.out \in {"400", "ok"}
    /\ last.out = "400" => tickets = last.pre.tickets /\ events = last.pre.events
    /\ last.out = "ok" =>
         /\ Len(tickets) = Len(last.pre.tickets) + 1
         /\ IsPrefix(last.pre.tickets, tickets)
         /\ tickets[Len(tickets)].status = S("open")
         /\ tickets[Len(tickets)].priority = RequestedPriority(last.in)
         /\ \A i \in 1..Len(last.pre.tickets) : tickets[i].id # tickets[Len(tickets)].id
         /\ Len(events) = Len(last.pre.events) + 1
         /\ IsPrefix(last.pre.events, events)
         /\ events[Len(events)].action = "created"
         /\ events[Len(events)].ticket_id = tickets[Len(tickets)].id

(* A second ticket was created, with a priority given. *)
C8_Witness ==
  /\ last.op = "new_ticket" /\ last.out = "ok"
  /\ Len(tickets) = 2
  /\ last.in.priority = <<WS, "high">> /\ tickets[2].priority = S("high")

(* C9: a successful mutation of a ticket (an update that changes a field, *)
(* a comment, an attachment) moves its updated_at forward and leaves its  *)
(* created_at alone (stated here for the tickets that have an updated_at). *)
C9_UpdatedAtAdvances ==
  (/\ last.op \in {"ticket_detail", "add_comment", "upload_attach"}
   /\ last.out = "ok"
   /\ Snapshot # last.pre
   /\ last.pre.tickets[last.tid].updated_at # NullTime) =>
    /\ tickets[last.tid].updated_at > last.pre.tickets[last.tid].updated_at
    /\ tickets[last.tid].created_at = last.pre.tickets[last.tid].created_at

(* C10: every ticket's status and priority is one of the enumerated       *)
(* values.                                                                *)
C10_Enumerated ==
  pc = "serving" =>
    \A i \in 1..Len(tickets) :
      tickets[i].status \in STATUS_CHOICES /\ tickets[i].priority \in PRIORITY_CHOICES

====
